---- MODULE Spec2Model ----
(***************************************************************************)
(* A model of the payload-ab plugin: the beforeChange hook that seeds,     *)
(* preserves or clears the abVariant group (src/src/index.ts), the sync    *)
(* endpoints it calls (endpoints/posthog.ts) and the external PostHog      *)
(* project those endpoints talk to.                                        *)
(*                                                                         *)
(* JavaScript values are tagged records [k |-> kind, v |-> payload]:       *)
(*   undef, null, bool ("true"/"false"), str, obj (a function from the     *)
(*   present keys to values), arr (a sequence of values).                  *)
(* A key that is absent from an object reads as undefined, as in JS.       *)
(***************************************************************************)
EXTENDS Integers, Sequences, FiniteSets, TLC

VARIABLES
  doc,     \* the stored document (undefined before it is created)
  fields,  \* collectionFieldMappings[collectionSlug]: the selected field names
  flags,   \* the feature flags of the PostHog project
  exps,    \* the experiments of the PostHog project
  clock,   \* Date.now()
  last,    \* the last operation: its inputs, its result, the requests it issued
  hist,    \* one summary per operation so far
  copies,  \* copies of base content into the variant since enableABTesting last became true
  n,       \* operations so far
  cookies, \* the visitor's cookie jar: the value of the _ph_id cookie (undefined when absent)
  config,  \* the Payload config: the collection with its field definitions, and what the plugin added
  heap,    \* the objects field definitions refer to (hooks objects and hook lists), by address
  inflight \* the upsert requests being handled at the same time: per request its position and what its lookup found

vars == <<doc, fields, flags, exps, clock, last, hist, copies, n, cookies, config, heap, inflight>>

\* ------------------------------------------------------------------ bounds
\* longest array drawn as an input value
MaxLen == 2
\* number of saves of the document explored in one behaviour
MaxSaves == 3
\* number of endpoint calls explored in one behaviour
MaxCalls == 2
\* number of times the sanitizer is applied to its own result
MaxPasses == 2

\* ------------------------------------------------------------ JS values
\* no Payload config is looked at
NoConfig ==
  [slug |-> "", fields |-> <<>>, variantFields |-> <<>>, modified |-> FALSE,
   beforeChange |-> 0, variants |-> <<>>]
Undef == [k |-> "undef", v |-> ""]
Null == [k |-> "null", v |-> ""]
Str(s) == [k |-> "str", v |-> s]
Bool(b) == [k |-> "bool", v |-> IF b THEN "true" ELSE "false"]
Obj(f) == [k |-> "obj", v |-> f]
Arr(s) == [k |-> "arr", v |-> s]
EmptyObj == Obj(<<>>)
JSTrue == Bool(TRUE)
JSFalse == Bool(FALSE)

\* ToBoolean(x): undefined, null, false and "" are falsy
Truthy(x) ==
  CASE x.k \in {"undef", "null"} -> FALSE
    [] x.k = "bool" -> x.v = "true"
    [] x.k = "str" -> x.v # ""
    [] OTHER -> TRUE

\* typeof x === 'object' (true of null, arrays and objects)
TypeofObject(x) == x.k \in {"null", "obj", "arr"}

\* o.key and o?.key: undefined when o is no object or lacks the key
Get(o, key) == IF o.k = "obj" /\ key \in DOMAIN o.v THEN o.v[key] ELSE Undef

\* o.key = val on an object
Set(o, key, val) ==
  Obj([x \in (DOMAIN o.v) \cup {key} |-> IF x = key THEN val ELSE o.v[x]])

\* the keys of an object (none for any other value)
Keys(o) == IF o.k = "obj" THEN DOMAIN o.v ELSE {}

\* { ...a, ...b } for two objects: b's keys win
Merge(a, b) ==
  Obj([x \in (DOMAIN a.v) \cup (DOMAIN b.v) |->
         IF x \in DOMAIN b.v THEN b.v[x] ELSE a.v[x]])

\* a || b
OrElse(a, b) == IF Truthy(a) THEN a ELSE b

\* const x = v; followed by the statements F(x): v is computed once, before
\* the statements that read it
Then(v, F(_)) == CHOOSE y \in {F(x) : x \in {v}} : TRUE

\* ------------------------------------------------------- ContentSanitizer
SystemKeys == {"id", "_id", "__v", "createdAt", "updatedAt"}

sanitizeObject_onePass(obj) ==
  IF obj.k = "obj" /\ (DOMAIN obj.v) \cap SystemKeys # {}
    THEN Obj([key \in (DOMAIN obj.v) \
                       {CHOOSE y \in (DOMAIN obj.v) \cap SystemKeys : TRUE} |->
                obj.v[key]])
    ELSE obj
RECURSIVE sanitizeObject(_)
sanitizeObject(obj) ==
  IF ~Truthy(obj) \/ ~TypeofObject(obj) THEN obj
  ELSE IF obj.k = "arr"
    THEN Arr([i \in 1..Len(obj.v) |-> sanitizeObject(obj.v[i])])
  ELSE Obj([key \in (DOMAIN obj.v) \ SystemKeys |->
              IF TypeofObject(obj.v[key]) /\ obj.v[key].k # "null"
                THEN sanitizeObject(obj.v[key])
                ELSE obj.v[key]])

\* JSON.parse(JSON.stringify(x)) for a defined x: an undefined property is
\* dropped, an undefined array element becomes null
RECURSIVE JsonRoundTrip(_)
JsonRoundTrip(x) ==
  IF x.k = "arr"
    THEN Arr([i \in 1..Len(x.v) |->
                IF x.v[i].k = "undef" THEN Null ELSE JsonRoundTrip(x.v[i])])
  ELSE IF x.k = "obj"
    THEN Obj([key \in {y \in DOMAIN x.v : x.v[y].k # "undef"} |->
                JsonRoundTrip(x.v[key])])
  ELSE x

\* ------------------------------------------ first-enable copy (the hook)
\* field names that always take the stringify/sanitize path
ComplexFieldNames == {"content", "callOut", "callToAction", "subTitle"}

\* the aliases of a block's type discriminator
BlockKinds == {"blockType", "type", "blockName"}

\* { ...x }: own enumerable properties (an array spreads to index keys, a
\* boolean or null to nothing; strings are never spread in this model)
Spread(x) ==
  IF x.k = "obj" THEN x.v
  ELSE IF x.k = "arr"
    THEN [s \in {ToString(j - 1) : j \in 1..Len(x.v)} |->
            x.v[CHOOSE j \in 1..Len(x.v) : ToString(j - 1) = s]]
  ELSE <<>>

\* Array.isArray(parsed) && parsed.length > 0 && parsed[0] &&
\* (parsed[0].blockType || parsed[0].type || parsed[0].blockName)
IsBlockList(parsed) ==
  /\ parsed.k = "arr"
  /\ Len(parsed.v) > 0
  /\ Truthy(parsed.v[1])
  /\ \E d \in BlockKinds : Truthy(Get(parsed.v[1], d))

\* block.blockType on a null element raises a TypeError inside the map
BlockMapThrows(parsed) ==
  \E i \in 1..Len(parsed.v) : parsed.v[i].k \in {"null", "undef"}

\* the callback of parsed.map(...): one block of a block list
sanitizeBlock(block) ==
  LET type == OrElse(OrElse(Get(block, "blockType"), Get(block, "type")),
                     Get(block, "blockName"))
      whole == Spread(block)
      kept == (DOMAIN whole) \ ({"id", "_id"} \cup BlockKinds)
      sanitizedInternalFields == sanitizeObject(Obj([x \in kept |-> whole[x]]))
  IN Merge(Obj([x \in {"blockType"} |-> type]), sanitizedInternalFields)

\* the value stored in newVariant[fieldName] for a defined sourceValue
copyField(fieldName, sourceValue) ==
  IF fieldName \in ComplexFieldNames \/ TypeofObject(sourceValue)
    THEN Then(JsonRoundTrip(sourceValue), LAMBDA parsed :
           IF IsBlockList(parsed)
             THEN IF BlockMapThrows(parsed)
                    THEN sanitizeObject(sourceValue)  \* catch: shallow copy
                    ELSE Arr([i \in 1..Len(parsed.v) |-> sanitizeBlock(parsed.v[i])])
             ELSE sanitizeObject(parsed))
    ELSE sourceValue

\* new data overrides originalDoc
sourceValueOf(currentData, originalDoc, fieldName) ==
  IF Get(currentData, fieldName) # Undef
    THEN Get(currentData, fieldName)
    ELSE Get(originalDoc, fieldName)

\* newVariant: the selected fields that have a source, then the two
\* PostHog keys kept from the incoming abVariant
newVariantOf_merge(currentData, originalDoc, fieldsToCopy) ==
  Merge(Get(currentData, "abVariant"),
        Obj([f \in {g \in fieldsToCopy : sourceValueOf(currentData, originalDoc, g) # Undef} |->
               copyField(f, sourceValueOf(currentData, originalDoc, f))]))
newVariantOf(currentData, originalDoc, fieldsToCopy) ==
  LET copied == {f \in fieldsToCopy :
                   sourceValueOf(currentData, originalDoc, f) # Undef}
      av == Get(currentData, "abVariant")
  IN Then(Obj([f \in copied |->
                 copyField(f, sourceValueOf(currentData, originalDoc, f))]),
          LAMBDA fromFields :
     Then(IF Truthy(Get(av, "posthogVariantName"))
            THEN Set(fromFields, "posthogVariantName", Get(av, "posthogVariantName"))
            ELSE fromFields,
          LAMBDA withName :
     IF Truthy(Get(av, "posthogFeatureFlagKey"))
       THEN Set(withName, "posthogFeatureFlagKey", Get(av, "posthogFeatureFlagKey"))
       ELSE withName))

\* lines 577-580: abVariant becomes {} unless it is already an object
initVariant(currentData) ==
  IF ~Truthy(Get(currentData, "abVariant"))
     \/ ~TypeofObject(Get(currentData, "abVariant"))
    THEN Set(currentData, "abVariant", EmptyObj)
    ELSE currentData

\* currentData.abVariant = {}
clearVariant_keep(currentData) == currentData
clearVariant(currentData) == Set(currentData, "abVariant", EmptyObj)

wasABTestingEnabled(originalDoc) == Get(originalDoc, "enableABTesting") = JSTrue
isABTestingEnabled(currentData) == Get(currentData, "enableABTesting") = JSTrue
isFirstTimeEnabling_always(currentData, originalDoc) ==
  isABTestingEnabled(currentData)
isFirstTimeEnabling(currentData, originalDoc) ==
  isABTestingEnabled(currentData) /\ ~wasABTestingEnabled(originalDoc)

\* lines 594-716: the variant after the seed-or-preserve decision
seedOrPreserve_recopy(currentData, originalDoc, fieldsToCopy) ==
  Set(currentData, "abVariant", newVariantOf(currentData, originalDoc, fieldsToCopy))
seedOrPreserve(currentData, originalDoc, fieldsToCopy) ==
  IF isFirstTimeEnabling(currentData, originalDoc)
    THEN Set(currentData, "abVariant",
             newVariantOf(currentData, originalDoc, fieldsToCopy))
    ELSE currentData

\* ------------------------------------------------- the external project
\* A PostHog flag: [id, key, name, active, variants, urlFilter]; the project
\* holds a sequence of them and numbers them in creation order.

\* GET feature_flags/?key=K: the service answers with a result list; it
\* either honours the key filter or lists every flag of the project
LookupResults(fl, key, filtered) ==
  IF filtered THEN SelectSeq(fl, LAMBDA f : f.key = key) ELSE fl

\* POST feature_flags/: the new flag is stored as sent
CreateFlag(fl, cfg) ==
  Append(fl, [id |-> Len(fl) + 1, key |-> cfg.key, name |-> cfg.name,
              active |-> cfg.active, variants |-> cfg.variants,
              urlFilter |-> cfg.urlFilter])

\* PATCH feature_flags/<id>/ with {name, active, filters}
PatchFlag(fl, id, cfg) ==
  [i \in 1..Len(fl) |->
     IF fl[i].id = id
       THEN [fl[i] EXCEPT !.name = cfg.name, !.active = cfg.active,
                          !.variants = cfg.variants, !.urlFilter = cfg.urlFilter]
       ELSE fl[i]]

\* PATCH feature_flags/<id>/ with {active: false}
DeactivateFlag(fl, id) ==
  [i \in 1..Len(fl) |-> IF fl[i].id = id THEN [fl[i] EXCEPT !.active = FALSE] ELSE fl[i]]

\* ------------------------------------------------------- sync endpoints
\* `${x}` in a template string
Text(x) == IF x.k = "undef" THEN "undefined" ELSE IF x.k = "null" THEN "null" ELSE x.v

\* withAuth: 500 without a server token, 401 on any other header, else 0
\* (the wrapped handler runs)
withAuth_open(token, authHeader) == 0
withAuth(token, authHeader) ==
  IF token = "" THEN 500
  ELSE IF authHeader # "Bearer " \o token THEN 401
  ELSE 0

\* filters.multivariate.variants of the flag configuration
flagVariants(variantName) ==
  << [key |-> "control", name |-> "Control", rollout_percentage |-> 50],
     [key |-> "variant", name |-> "Variant", rollout_percentage |-> 50] >>

\* featureFlagConfig built from the request body at time now
featureFlagConfigOf(body, now) ==
  LET key == Get(body, "key")
      docId == Get(body, "docId")
  IN [key |-> IF Truthy(key) THEN key.v
                ELSE "posthog_ab_" \o Text(docId) \o "_" \o ToString(now),
      name |-> IF Truthy(Get(body, "name")) THEN Get(body, "name").v
                 ELSE "A/B Test: " \o Text(docId),
      active |-> TRUE,
      variants |-> flagVariants(Get(body, "variantName")),
      urlFilter |-> IF Truthy(Get(body, "urlFilter")) THEN Get(body, "urlFilter").v ELSE ""]

\* no request was made to the flag endpoint
NoResponse == [status |-> 0, action |-> "", key |-> ""]

Call(m, key, id) == [m |-> m, key |-> key, id |-> id]
Response(status, action, key, fl, calls) ==
  [status |-> status, action |-> action, key |-> key, flags |-> fl, calls |-> calls]

\* existingFlags.results?.find(f => f.key === featureFlagKey): 0 when none
FindByKey_first(results, key) == IF Len(results) > 0 THEN results[1].id ELSE 0
FindByKey(results, key) ==
  IF \E i \in 1..Len(results) : results[i].key = key
    THEN results[CHOOSE i \in 1..Len(results) :
                   /\ results[i].key = key
                   /\ \A j \in 1..(i - 1) : results[j].key # key].id
    ELSE 0

\* POST /posthog/feature-flags, the handler under withAuth.  env gives the
\* outcome of each step the handler does not decide itself:
\*   configured (validatePostHogConfig), parsed (parseRequestBody),
\*   get \in {"ok","fail","throw"}, filtered, write \in {"ok","fail"}
featureFlagsHandler(body, fl, now, env) ==
  LET cfg == featureFlagConfigOf(body, now)
      results == LookupResults(fl, cfg.key, env.filtered)
      existingId == IF env.get = "ok" THEN FindByKey(results, cfg.key) ELSE 0
      get == Call("GET", cfg.key, 0)
  IN IF ~env.configured \/ ~env.parsed
       THEN Response(500, "error", "", fl, <<>>)
     ELSE IF ~Truthy(Get(body, "key")) /\ ~Truthy(Get(body, "docId"))
       THEN Response(400, "error", "", fl, <<>>)
     ELSE IF env.get = "throw"
       THEN Response(500, "error", "", fl, <<get>>)
     ELSE IF existingId # 0
       THEN IF env.write = "ok"
              THEN Response(200, "updated", cfg.key, PatchFlag(fl, existingId, cfg),
                            <<get, Call("PATCH", cfg.key, existingId)>>)
              ELSE Response(500, "error", "", fl,
                            <<get, Call("PATCH", cfg.key, existingId)>>)
     ELSE IF env.write = "ok"
       THEN Response(201, "created", cfg.key, CreateFlag(fl, cfg),
                     <<get, Call("CREATE", cfg.key, 0)>>)
       ELSE Response(500, "error", "", fl, <<get, Call("CREATE", cfg.key, 0)>>)

\* the endpoint as registered: withAuth around the handler
featureFlagsEndpoint(token, authHeader, body, fl, now, env) ==
  IF withAuth(token, authHeader) # 0
    THEN Response(withAuth(token, authHeader), "error", "", fl, <<>>)
    ELSE featureFlagsHandler(body, fl, now, env)

\* POST /posthog/feature-flags/deactivate, the handler under withAuth: the
\* flag to switch off is the first of the lookup's result list
deactivateHandler(body, fl, env) ==
  LET featureFlagKey == Get(body, "featureFlagKey")
      results == LookupResults(fl, Text(featureFlagKey), env.filtered)
      get == Call("GET", Text(featureFlagKey), 0)
  IN IF ~env.configured \/ ~env.parsed
       THEN Response(500, "error", "", fl, <<>>)
     ELSE IF ~Truthy(featureFlagKey)
       THEN Response(400, "error", "", fl, <<>>)
     ELSE IF env.get = "throw"
       THEN Response(500, "error", "", fl, <<get>>)
     ELSE IF env.get = "fail"
       THEN Response(503, "error", "", fl, <<get>>)
     ELSE IF Len(results) = 0
       THEN Response(200, "not found", featureFlagKey.v, fl, <<get>>)
     ELSE IF env.write = "ok"
       THEN Response(200, "deactivated", featureFlagKey.v,
                     DeactivateFlag(fl, results[1].id),
                     <<get, Call("PATCH", results[1].key, results[1].id)>>)
       ELSE Response(500, "error", "", fl,
                     <<get, Call("PATCH", results[1].key, results[1].id)>>)

\* the endpoint as registered: withAuth around the handler
deactivateEndpoint(token, authHeader, body, fl, env) ==
  IF withAuth(token, authHeader) # 0
    THEN Response(withAuth(token, authHeader), "error", "", fl, <<>>)
    ELSE deactivateHandler(body, fl, env)

\* POST experiments/ on the project: the experiment is stored as sent
CreateExperiment(ex, payload) ==
  Append(ex, [id |-> Len(ex) + 1, name |-> payload.name,
              feature_flag_key |-> payload.feature_flag_key,
              metrics |-> payload.metrics])

\* POST /posthog/experiments under withAuth; env.expWrite is the outcome of
\* the project's POST
experimentsEndpoint(token, authHeader, body, ex, env) ==
  LET payload == [name |-> Text(Get(body, "name")),
                  feature_flag_key |-> Text(Get(body, "feature_flag_key")),
                  metrics |-> Get(body, "metrics")]
      post == Call("CREATE_EXPERIMENT", payload.feature_flag_key, 0)
  IN IF withAuth(token, authHeader) # 0
       THEN [status |-> withAuth(token, authHeader), exps |-> ex, calls |-> <<>>]
     ELSE IF ~env.configured \/ ~env.parsed
       THEN [status |-> 500, exps |-> ex, calls |-> <<>>]
     ELSE IF ~Truthy(Get(body, "name")) \/ ~Truthy(Get(body, "feature_flag_key"))
       THEN [status |-> 400, exps |-> ex, calls |-> <<>>]
     ELSE IF env.expWrite = "ok"
       THEN [status |-> 201, exps |-> CreateExperiment(ex, payload), calls |-> <<post>>]
       ELSE [status |-> 502, exps |-> ex, calls |-> <<post>>]

\* GET /posthog/flags and GET /posthog/experiments under withAuth: the list
\* is fetched from the project and handed back
listEndpoint(token, authHeader, fl, env) ==
  IF withAuth(token, authHeader) # 0
    THEN Response(withAuth(token, authHeader), "error", "", fl, <<>>)
  ELSE IF ~env.configured THEN Response(500, "error", "", fl, <<>>)
  ELSE IF env.get = "throw" THEN Response(500, "error", "", fl, <<Call("GET", "", 0)>>)
  ELSE IF env.get = "fail" THEN Response(503, "error", "", fl, <<Call("GET", "", 0)>>)
  ELSE Response(200, "listed", "", fl, <<Call("GET", "", 0)>>)

\* ------------------------------------------------------ ChangeReconciler
collectionSlug == "posts"
DefaultHost == "runway.ac"

\* the path part of the generated URL filter
slugPathOf(docSlug) ==
  IF collectionSlug = "advertorials" THEN "/a/" \o docSlug
  ELSE IF collectionSlug = "thankYouPages" THEN "/t/" \o docSlug
  ELSE IF collectionSlug = "vsl" THEN "/v/" \o docSlug
  ELSE IF docSlug # "home" THEN "/" \o docSlug
  ELSE ""

\* lines 720-760, once the brand lookup has answered brandDoc: the URL
\* filter is generated when none is given and the document has a slug (the
\* hosts and slugs of this model hold no character the escaping rewrites)
withUrlFilter(currentData, originalDoc, brandDoc) ==
  LET host == IF Truthy(Get(currentData, "brand"))
                THEN OrElse(Get(brandDoc, "host"), Str(DefaultHost))
                ELSE Str(DefaultHost)
      docSlug == OrElse(Get(currentData, "slug"), Get(originalDoc, "slug"))
  IN IF Truthy(Get(currentData, "enableABTesting"))
        /\ ~Truthy(Get(currentData, "experimentUrlFilter"))
        /\ Truthy(host) /\ Truthy(docSlug)
       THEN Set(currentData, "experimentUrlFilter",
                Str("^https://" \o host.v \o slugPathOf(docSlug.v) \o "(?:\\\\?.*)?$"))
       ELSE currentData

\* req.payload.findByID for the brand runs, and here throws
brandLookupThrows(currentData, env) ==
  /\ Truthy(Get(currentData, "enableABTesting"))
  /\ ~Truthy(Get(currentData, "experimentUrlFilter"))
  /\ Truthy(Get(currentData, "brand"))
  /\ env.brand = "throw"

\* `Bearer ${process.env.INTERNAL_API_TOKEN}`; "" stands for an unset token
hookAuthHeader(token) == IF token = "" THEN "Bearer undefined" ELSE "Bearer " \o token

\* postHogPayload of handlePostHogFeatureFlag, as JSON.stringify sends it
postHogPayloadOf(currentData, originalDoc) ==
  JsonRoundTrip(Obj([x \in {"name", "key", "docId", "variantName", "urlFilter"} |->
    CASE x = "name" -> Get(currentData, "posthogFeatureFlagName")
      [] x = "key" -> Get(currentData, "posthogFeatureFlagKey")
      [] x = "docId" -> OrElse(OrElse(Get(originalDoc, "_id"), Get(originalDoc, "id")),
                               Get(currentData, "id"))
      [] x = "variantName" -> OrElse(Get(currentData, "posthogVariantName"), Str("variant"))
      [] OTHER -> Get(currentData, "experimentUrlFilter")]))

\* handlePostHogFeatureFlag: the POST to the plugin's own endpoint (recorded
\* as the call SYNC_FLAG, before the calls the endpoint makes in turn), with
\* the server's token in the header.  threw: the helper re-throws when the
\* fetch fails (env.net) or the response is not ok
handlePostHogFeatureFlag(currentData, originalDoc, w, env) ==
  IF env.net = "throw"
    THEN [threw |-> TRUE, flags |-> w.flags,
          calls |-> <<Call("SYNC_FLAG", Text(Get(currentData, "posthogFeatureFlagKey")), 0)>>,
          resp |-> NoResponse]
    ELSE Then(postHogPayloadOf(currentData, originalDoc), LAMBDA postHogPayload :
         Then(featureFlagsEndpoint(env.token, hookAuthHeader(env.token),
                                   postHogPayload, w.flags, w.clock, env),
              LAMBDA r :
         [threw |-> ~(r.status \in 200..299), flags |-> r.flags,
          calls |-> <<Call("SYNC_FLAG", Text(Get(postHogPayload, "key")), 0)>> \o r.calls,
          resp |-> r]))

\* lines 777-786: experimentName defaults to the document's flag key
withExperimentName(currentData) ==
  IF Truthy(Get(currentData, "enableABTesting"))
     /\ Truthy(Get(currentData, "posthogFeatureFlagKey"))
     /\ ~Truthy(Get(currentData, "experimentName"))
    THEN Set(currentData, "experimentName", Get(currentData, "posthogFeatureFlagKey"))
    ELSE currentData

\* metric?.event || metric?.name || metric?.metric of every metric
metricEvents(experimentMetrics) ==
  Arr([i \in 1..Len(experimentMetrics.v) |->
         OrElse(OrElse(Get(experimentMetrics.v[i], "event"),
                       Get(experimentMetrics.v[i], "name")),
                Get(experimentMetrics.v[i], "metric"))])

\* handlePostHogExperiment: skipped without metrics or without a flag key;
\* its POST to the plugin's own endpoint is recorded as SYNC_EXPERIMENT;
\* its own errors are logged and never re-thrown
handlePostHogExperiment(currentData, ex, env) ==
  LET experimentMetrics == Get(currentData, "experimentMetrics")
      key == Get(currentData, "posthogFeatureFlagKey")
      body == Obj([x \in {"name", "description", "feature_flag_key", "metrics"} |->
                CASE x = "name" -> OrElse(Get(currentData, "experimentName"), key)
                  [] x = "description" ->
                       OrElse(Get(currentData, "experimentDescription"),
                              Str("Experiment for " \o Text(key)))
                  [] x = "feature_flag_key" -> key
                  [] OTHER -> metricEvents(experimentMetrics)])
  IN IF ~Truthy(experimentMetrics) \/ experimentMetrics.k # "arr"
        \/ Len(experimentMetrics.v) = 0
       THEN [exps |-> ex, calls |-> <<>>]
     ELSE IF ~Truthy(key) THEN [exps |-> ex, calls |-> <<>>]
     ELSE IF env.net = "throw"
       THEN [exps |-> ex, calls |-> <<Call("SYNC_EXPERIMENT", Text(key), 0)>>]
     ELSE Then(body, LAMBDA b :
          Then(experimentsEndpoint(env.token, hookAuthHeader(env.token), b, ex, env),
               LAMBDA r : [exps |-> r.exps,
                           calls |-> <<Call("SYNC_EXPERIMENT", Text(key), 0)>> \o r.calls]))

\* the outer catch of the hook: an exception that reaches it is logged and the
\* hook returns currentData, so the promise resolves either way
outerCatch_rethrow(threw) == IF threw THEN "rejected" ELSE "resolved"
outerCatch(threw) == "resolved"

\* return currentData in the catch: the document as mutated so far, where
\* data is what the hook was called with
catchReturns_rollback(currentData, data) == data
catchReturns(currentData, data) == currentData

\* threw: an exception left the try block (the brand lookup or the flag helper)
HookResult(data, fl, ex, calls, copied, resp, threw) ==
  [data |-> data, flags |-> fl, exps |-> ex, calls |-> calls, copied |-> copied,
   outcome |-> outerCatch(threw),
   status |-> resp.status, action |-> resp.action, key |-> resp.key]

\* copyToVariantHook(args): the document it resolves with, the project's
\* flags and experiments after its calls, the external requests issued, and
\* whether base content was copied into the variant.
\*   w   = [flags, exps, clock]
\*   env = the outcomes of the steps outside the hook's control
copyToVariantHook(data, originalDoc, fieldsToCopy, w, env) ==
  Then(initVariant(data), LAMBDA init :
  LET first == isFirstTimeEnabling(init, originalDoc)
  IN IF ~Truthy(Get(init, "enableABTesting"))
       THEN HookResult(clearVariant(init), w.flags, w.exps, <<>>, FALSE, NoResponse, FALSE)
     ELSE IF isABTestingEnabled(init)
       THEN Then(seedOrPreserve(init, originalDoc, fieldsToCopy), LAMBDA seeded :
            IF brandLookupThrows(seeded, env)
              THEN HookResult(catchReturns(seeded, data), w.flags, w.exps, <<>>, first,
                              NoResponse, TRUE)
            ELSE
            Then(withUrlFilter(seeded, originalDoc, env.brandDoc), LAMBDA filtered :
            Then(handlePostHogFeatureFlag(filtered, originalDoc, w, env), LAMBDA flag :
            IF flag.threw
              THEN HookResult(catchReturns(filtered, data), flag.flags, w.exps, flag.calls,
                              first, flag.resp, TRUE)
            ELSE
            Then(withExperimentName(filtered), LAMBDA named :
            Then(handlePostHogExperiment(named, w.exps, env), LAMBDA exp :
            HookResult(named, flag.flags, exp.exps, flag.calls \o exp.calls, first,
                       flag.resp, FALSE))))))
     ELSE IF wasABTestingEnabled(originalDoc)
       THEN HookResult(clearVariant(init), w.flags, w.exps, <<>>, FALSE, NoResponse, FALSE)
     ELSE HookResult(init, w.flags, w.exps, <<>>, FALSE, NoResponse, FALSE))

\* ------------------------------------------------------------ operations
\* the write reaches storage: a create stores the data under a new id, an
\* update overwrites the keys the hook returned and keeps the others
persist(stored, returned) ==
  IF stored.k = "undef" THEN Set(returned, "id", Str("d1")) ELSE Merge(stored, returned)

\* all functions on the keys D that pick, per key, one of its choices
RECURSIVE PickAll(_, _)
PickAll(choices, D) ==
  IF D = {} THEN {<<>>}
  ELSE LET x == CHOOSE y \in D : TRUE
       IN {f @@ (x :> val) : f \in PickAll(choices, D \ {x}), val \in choices[x]}

\* all partial objects over the given choice of values per key (Undef: absent)
ObjectsOver(choices) ==
  {Obj([x \in {y \in DOMAIN f : f[y].k # "undef"} |-> f[x]]) :
     f \in PickAll(choices, DOMAIN choices)}

\* outcomes of the steps a save does not decide
EnvOk ==
  [token |-> "tok", configured |-> TRUE, parsed |-> TRUE, get |-> "ok",
   filtered |-> TRUE, write |-> "ok", net |-> "ok", brand |-> "ok",
   brandDoc |-> Obj([x \in {"host"} |-> Str("b.io")]), expWrite |-> "ok"]

\* the record of the latest operation: its inputs (orig, data, the Authorization
\* header, env, the project's flags before it) and what it answered
NoLast ==
  [op |-> "none", orig |-> Undef, data |-> Undef, ret |-> Undef, calls |-> <<>>,
   copied |-> FALSE, status |-> 0, action |-> "", key |-> "", allOk |-> TRUE,
   before |-> <<>>, auth |-> "", env |-> EnvOk, outcome |-> "none",
   arm |-> "", distinctId |-> "", served |-> "", evals |-> <<>>,
   options |-> <<>>, config |-> NoConfig, heap |-> <<>>]

\* every single failure of a save's surroundings
FailEnvs ==
  { [EnvOk EXCEPT !.filtered = FALSE],
    [EnvOk EXCEPT !.token = ""],
    [EnvOk EXCEPT !.configured = FALSE],
    [EnvOk EXCEPT !.get = "fail"],
    [EnvOk EXCEPT !.get = "throw"],
    [EnvOk EXCEPT !.write = "fail"],
    [EnvOk EXCEPT !.net = "throw"],
    [EnvOk EXCEPT !.brand = "throw"],
    [EnvOk EXCEPT !.brandDoc = Null],
    [EnvOk EXCEPT !.expWrite = "fail"] }

\* the surroundings of the saves of one document's life
SaveEnvs == {EnvOk, [EnvOk EXCEPT !.write = "fail"], [EnvOk EXCEPT !.net = "throw"]}

EnvAllOk(env) ==
  /\ env.token # "" /\ env.configured /\ env.parsed /\ env.get = "ok"
  /\ env.write = "ok" /\ env.net = "ok" /\ env.brand = "ok" /\ env.expWrite = "ok"

\* one save of the document: the beforeChange hook runs on (data, stored
\* document), its requests reach the project, the returned data is stored
SaveWith(data, env) ==
  \E r \in {copyToVariantHook(data, doc, fields,
                               [flags |-> flags, exps |-> exps, clock |-> clock + 1], env)} :
     /\ doc' = persist(doc, r.data)
     /\ flags' = r.flags
     /\ exps' = r.exps
     /\ clock' = clock + 1
     /\ last' = [NoLast EXCEPT !.op = "save", !.orig = doc, !.data = data,
                               !.ret = r.data, !.calls = r.calls,
                               !.copied = r.copied, !.allOk = EnvAllOk(env),
                               !.before = flags, !.env = env,
                               !.outcome = r.outcome,
                               !.status = r.status, !.action = r.action, !.key = r.key]
     /\ copies' = IF Get(persist(doc, r.data), "enableABTesting") # JSTrue THEN 0
                  ELSE IF r.copied THEN copies + 1
                  ELSE copies
     /\ n' = n + 1
     /\ UNCHANGED <<fields, hist, cookies, config, heap, inflight>>

\* ---- the life of one document
SaveInputs ==
  ObjectsOver([enableABTesting |-> {Undef, JSFalse, JSTrue},
               title |-> {Undef, Str("T2")},
               abVariant |-> {Undef, Obj([x \in {"title"} |-> Str("V1")])},
               posthogFeatureFlagKey |-> {Undef, Str("k1")},
               experimentMetrics |->
                 {Undef, Arr(<<Obj([x \in {"metric"} |-> Str("page_view")])>>)}])

InitialDoc ==
  Obj([x \in {"id", "title", "enableABTesting"} |->
         CASE x = "id" -> Str("d1") [] x = "title" -> Str("T1") [] OTHER -> JSFalse])

Init ==
  /\ doc = InitialDoc
  /\ fields = {"title", "content"}
  /\ flags = <<>>
  /\ exps = <<>>
  /\ clock = 0
  /\ last = NoLast
  /\ hist = <<>>
  /\ copies = 0
  /\ n = 0
  /\ cookies = Undef
  /\ config = NoConfig
  /\ heap = <<>>
  /\ inflight = <<>>

Save ==
  /\ n < MaxSaves
  /\ \E data \in SaveInputs, env \in SaveEnvs : SaveWith(data, env)

Next == Save

Spec == Init /\ [][Next]_vars

\* ---- one first-enable save over nested content
\* a nested row that carries every system key
Inner ==
  Obj([x \in SystemKeys \cup {"text"} |-> IF x = "text" THEN Str("a") ELSE Str("x")])

\* the first element of a content array: any mix of a row id, the three
\* discriminator aliases (type also as a nested object) and children
FirstElems ==
  ObjectsOver([id |-> {Undef, Str("x")},
               blockType |-> {Undef, Str("hero")},
               type |-> {Undef, Str("p"), Inner},
               blockName |-> {Undef, Str("B")},
               children |-> {Undef, Str("a"), Arr(<<Inner>>)}])

\* the elements that may follow it
TailElems ==
  { Null,
    Obj([x \in {"text"} |-> Str("a")]),
    Obj([x \in {"_id", "createdAt", "type"} |-> IF x = "type" THEN Str("q") ELSE Str("x")]),
    Obj([x \in {"__v", "updatedAt", "blockName", "children"} |->
           CASE x = "blockName" -> Str("B")
             [] x = "children" -> Arr(<<Inner>>)
             [] OTHER -> Str("x")]) }

TailsUpTo(k) == UNION {[1..m -> TailElems] : m \in 0..k}

ContentArrays ==
  {Arr(<<>>)} \cup
  {Arr(<<e>> \o t) : e \in FirstElems \cup {Null}, t \in TailsUpTo(MaxLen - 1)}

ContentValues == ContentArrays \cup FirstElems \cup {Str("a"), Null}

CopyInputs ==
  {Merge(Obj([x \in {"enableABTesting"} |-> JSTrue]), d) :
     d \in ObjectsOver([title |-> {Undef, Str("T2")},
                        content |-> {Undef} \cup ContentValues,
                        abVariant |-> {Undef,
                                       Obj([x \in {"title", "id", "posthogVariantName"} |->
                                              IF x = "posthogVariantName" THEN Str("blue")
                                              ELSE Str("V1")])}])}

\* the stored document before the save: none yet (a create), or a document
\* with A/B testing off
CopyOrigDocs ==
  {Undef} \cup
  ObjectsOver([id |-> {Str("d1")},
               enableABTesting |-> {JSFalse},
               excerpt |-> {Str("E1")},
               title |-> {Str("T1")},
               content |-> {Undef, Arr(<<Obj([x \in {"blockType", "id"} |->
                                               IF x = "id" THEN Str("x") ELSE Str("hero")])>>)}])

InitCopy ==
  /\ doc \in CopyOrigDocs
  /\ fields \in {{"title", "content"}, {"content", "excerpt"}}
  /\ flags = <<>>
  /\ exps = <<>>
  /\ clock = 0
  /\ last = NoLast
  /\ hist = <<>>
  /\ copies = 0
  /\ n = 0
  /\ cookies = Undef
  /\ config = NoConfig
  /\ heap = <<>>
  /\ inflight = <<>>

EnableWithContent ==
  /\ n = 0
  /\ \E data \in CopyInputs, env \in {EnvOk, [EnvOk EXCEPT !.write = "fail"]} :
       SaveWith(data, env)

NextCopy == EnableWithContent

SpecCopy == InitCopy /\ [][NextCopy]_vars

\* ---- one enabled save over the sync-related fields
ExistingFlag(key, active) ==
  [id |-> 1, key |-> key, name |-> "Old", active |-> active,
   variants |-> flagVariants(Undef), urlFilter |-> ""]

SyncInputs ==
  {Merge(Obj([x \in {"enableABTesting"} |-> JSTrue]), d) :
     d \in ObjectsOver([posthogFeatureFlagKey |-> {Undef, Str("k1")},
                        posthogFeatureFlagName |-> {Undef, Str("N1")},
                        posthogVariantName |-> {Undef, Str("blue")},
                        experimentMetrics |->
                          {Undef, Arr(<<>>),
                           Arr(<<Obj([x \in {"metric"} |-> Str("page_view")])>>)},
                        experimentUrlFilter |-> {Undef, Str("^https://x$")},
                        slug |-> {Undef, Str("home"), Str("s1")},
                        brand |-> {Undef, Str("b1")},
                        content |-> {Undef, Arr(<<Obj([x \in {"type"} |-> Str("p")]),
                                                  Null>>)}])}

SyncOrigDocs ==
  ObjectsOver([id |-> {Str("d1")},
               title |-> {Str("T1")},
               enableABTesting |-> {JSFalse, JSTrue},
               posthogFeatureFlagKey |-> {Undef, Str("k1")}])

InitSync ==
  /\ doc \in SyncOrigDocs
  /\ fields = {"title", "content"}
  /\ flags \in {<<>>, <<ExistingFlag("k1", TRUE)>>, <<ExistingFlag("k1", FALSE)>>}
  /\ exps = <<>>
  /\ clock = 0
  /\ last = NoLast
  /\ hist = <<>>
  /\ copies = 0
  /\ n = 0
  /\ cookies = Undef
  /\ config = NoConfig
  /\ heap = <<>>
  /\ inflight = <<>>

EnabledSave ==
  /\ n = 0
  /\ \E data \in SyncInputs, env \in {EnvOk} \cup FailEnvs : SaveWith(data, env)

NextSync == EnabledSave

SpecSync == InitSync /\ [][NextSync]_vars

\* ---- calls of the sync endpoints
UpsertBodies ==
  ObjectsOver([key |-> {Undef, Str("k1"), Str("k2")},
               docId |-> {Undef, Str("d1")},
               variantName |-> {Undef, Str("blue")}])

\* the caller's Authorization header with the token that goes with it
EndpointEnvs ==
  {<<"Bearer tok", env>> : env \in {EnvOk} \cup
      {e \in FailEnvs : e.brand = "ok" /\ e.net = "ok" /\ e.expWrite = "ok"
                        /\ e.brandDoc = EnvOk.brandDoc}}
  \cup {<<"Bearer bad", EnvOk>>, <<"", EnvOk>>,
        <<"Bearer undefined", [EnvOk EXCEPT !.token = ""]>>,
        <<"Bearer tok", [EnvOk EXCEPT !.parsed = FALSE]>>}

HasFlag(fl, key) == \E i \in 1..Len(fl) : fl[i].key = key
CountCalls(calls, m) == Cardinality({i \in 1..Len(calls) : calls[i].m = m})

\* the two most recent summaries
Remember(h, e) == IF Len(h) < 2 THEN Append(h, e) ELSE <<h[2], e>>

\* POST /posthog/feature-flags by any caller
UpsertFlag ==
  /\ n < MaxCalls
  /\ \E body \in UpsertBodies, ae \in EndpointEnvs :
       \E r \in {featureFlagsEndpoint(ae[2].token, ae[1], body, flags, clock + 1, ae[2])} :
          /\ flags' = r.flags
          /\ clock' = clock + 1
          /\ last' = [NoLast EXCEPT !.op = "upsert", !.data = body, !.calls = r.calls,
                                    !.status = r.status, !.action = r.action,
                                    !.key = r.key, !.before = flags,
                                    !.auth = ae[1], !.env = ae[2],
                                    !.allOk = EnvAllOk(ae[2]) /\ ae[1] = "Bearer tok"]
          /\ hist' = Remember(hist,
                       [op |-> "upsert", reqKey |-> Get(body, "key"),
                        action |-> r.action, status |-> r.status,
                        creates |-> CountCalls(r.calls, "CREATE"),
                        allOk |-> EnvAllOk(ae[2]) /\ ae[1] = "Bearer tok",
                        existed |-> HasFlag(flags, Text(Get(body, "key")))])
          /\ n' = n + 1
          /\ UNCHANGED <<doc, fields, exps, copies, cookies, config, heap, inflight>>

\* the summary of an endpoint call that is no upsert: only that it happened
OtherCall(op) ==
  [op |-> op, reqKey |-> Undef, action |-> "", status |-> 0,
   creates |-> 0, allOk |-> FALSE, existed |-> FALSE]

DeactivateBodies == ObjectsOver([featureFlagKey |-> {Undef, Str("k1"), Str("k2")}])

\* POST /posthog/feature-flags/deactivate by any caller
DeactivateCall ==
  /\ n < MaxCalls
  /\ \E body \in DeactivateBodies, ae \in EndpointEnvs :
       \E r \in {deactivateEndpoint(ae[2].token, ae[1], body, flags, ae[2])} :
          /\ flags' = r.flags
          /\ clock' = clock + 1
          /\ last' = [NoLast EXCEPT !.op = "deactivate", !.data = body,
                                    !.calls = r.calls, !.status = r.status,
                                    !.action = r.action, !.key = r.key,
                                    !.before = flags, !.auth = ae[1], !.env = ae[2],
                                    !.allOk = EnvAllOk(ae[2]) /\ ae[1] = "Bearer tok"]
          /\ hist' = Remember(hist, OtherCall("deactivate"))
          /\ n' = n + 1
          /\ UNCHANGED <<doc, fields, exps, copies, cookies, config, heap, inflight>>

\* the surroundings that matter to the experiments endpoint and to the lists
ExperimentEnvs ==
  {ae \in EndpointEnvs : ae[2].get = "ok" /\ ae[2].write = "ok" /\ ae[2].filtered}
  \cup {<<"Bearer tok", [EnvOk EXCEPT !.expWrite = "fail"]>>}
ListEnvs ==
  {ae \in EndpointEnvs : ae[2].write = "ok" /\ ae[2].filtered /\ ae[2].parsed}

ExperimentBodies ==
  ObjectsOver([name |-> {Undef, Str("N1")},
               feature_flag_key |-> {Undef, Str("k1")}])

\* POST /posthog/experiments by any caller
ExperimentCall ==
  /\ n < MaxCalls
  /\ \E body \in ExperimentBodies, ae \in ExperimentEnvs :
       \E r \in {experimentsEndpoint(ae[2].token, ae[1], body, exps, ae[2])} :
          /\ exps' = r.exps
          /\ clock' = clock + 1
          /\ last' = [NoLast EXCEPT !.op = "experiment", !.data = body,
                                    !.calls = r.calls, !.status = r.status,
                                    !.before = flags, !.auth = ae[1], !.env = ae[2],
                                    !.allOk = EnvAllOk(ae[2]) /\ ae[1] = "Bearer tok"]
          /\ hist' = Remember(hist, OtherCall("experiment"))
          /\ n' = n + 1
          /\ UNCHANGED <<doc, fields, flags, copies, cookies, config, heap, inflight>>

\* GET /posthog/flags or GET /posthog/experiments by any caller
ListCall ==
  /\ n < MaxCalls
  /\ \E ae \in ListEnvs :
       \E r \in {listEndpoint(ae[2].token, ae[1], flags, ae[2])} :
          /\ clock' = clock + 1
          /\ last' = [NoLast EXCEPT !.op = "list", !.calls = r.calls,
                                    !.status = r.status, !.action = r.action,
                                    !.before = flags, !.auth = ae[1], !.env = ae[2],
                                    !.allOk = EnvAllOk(ae[2]) /\ ae[1] = "Bearer tok"]
          /\ hist' = Remember(hist, OtherCall("list"))
          /\ n' = n + 1
          /\ UNCHANGED <<doc, fields, flags, exps, copies, cookies, config, heap, inflight>>

\* the project is empty or already holds a flag of another document
InitEndpoint ==
  /\ doc = Undef
  /\ fields = {}
  /\ flags \in {<<>>, <<ExistingFlag("k2", TRUE)>>}
  /\ exps = <<>>
  /\ clock = 0
  /\ last = NoLast
  /\ hist = <<>>
  /\ copies = 0
  /\ n = 0
  /\ cookies = Undef
  /\ config = NoConfig
  /\ heap = <<>>
  /\ inflight = <<>>

NextEndpoint == UpsertFlag \/ DeactivateCall \/ ExperimentCall \/ ListCall

SpecEndpoint == InitEndpoint /\ [][NextEndpoint]_vars

\* ---- the sanitizer applied to a nested value, then to its own result
SanitizeRows ==
  ObjectsOver([id |-> {Undef, Str("x")},
               updatedAt |-> {Undef, Str("x")},
               text |-> {Undef, Str("a"), Null}])

SanitizeElems == {Null, Str("a"), Inner, Obj([x \in {"_id"} |-> Str("x")])}

SanitizeInputs ==
  {Undef, Null, Str(""), Str("a"), JSTrue, JSFalse}
  \cup SanitizeRows
  \cup {Arr(t) : t \in UNION {[1..m -> SanitizeElems] : m \in 0..MaxLen}}
  \cup ObjectsOver([__v |-> {Undef, Str("x")},
                    flag |-> {Undef, JSFalse},
                    child |-> SanitizeRows \cup {Arr(<<r>>) : r \in SanitizeRows}])

InitSanitize ==
  /\ doc \in SanitizeInputs
  /\ fields = {}
  /\ flags = <<>>
  /\ exps = <<>>
  /\ clock = 0
  /\ last = NoLast
  /\ hist = <<>>
  /\ copies = 0
  /\ n = 0
  /\ cookies = Undef
  /\ config = NoConfig
  /\ heap = <<>>
  /\ inflight = <<>>

\* doc = sanitizeObject(doc)
Sanitize ==
  /\ n < MaxPasses
  /\ doc' = sanitizeObject(doc)
  /\ last' = [NoLast EXCEPT !.op = "sanitize", !.orig = doc, !.ret = sanitizeObject(doc)]
  /\ n' = n + 1
  /\ UNCHANGED <<fields, flags, exps, clock, hist, copies, cookies, config, heap, inflight>>

NextSanitize == Sanitize

SpecSanitize == InitSanitize /\ [][NextSanitize]_vars

\* ------------------------------------------------------------ resolvers
\* resolver calls per visitor
MaxResolves == 2

\* lodash merge: own keys of source are merged into object recursively; arrays
\* are merged index by index; an undefined source value never replaces an
\* existing one.  (A key never holds an array on one side and an object on the
\* other in the documents resolved here.)
RECURSIVE baseMerge(_, _)
RECURSIVE mergeValue(_, _, _)
mergeValue(objValue, srcValue, has) ==
  IF srcValue.k = "arr"
    THEN baseMerge(IF objValue.k = "arr" THEN objValue ELSE Arr(<<>>), srcValue)
  ELSE IF srcValue.k = "obj"
    THEN baseMerge(IF objValue.k = "obj" THEN objValue ELSE EmptyObj, srcValue)
  ELSE IF srcValue.k = "undef" /\ has THEN objValue
  ELSE srcValue

baseMerge(object, source) ==
  IF source.k = "arr"
    THEN Arr([i \in 1..(IF Len(object.v) > Len(source.v) THEN Len(object.v) ELSE Len(source.v)) |->
                IF i > Len(source.v) THEN object.v[i]
                ELSE mergeValue(IF i <= Len(object.v) THEN object.v[i] ELSE Undef,
                                source.v[i], i <= Len(object.v))])
    ELSE Obj([x \in (DOMAIN object.v) \cup (DOMAIN source.v) |->
                IF x \notin DOMAIN source.v THEN object.v[x]
                ELSE mergeValue(Get(object, x), source.v[x], x \in DOMAIN object.v)])

\* merge({}, document, document.abVariant)
merge(document, abVariant) == baseMerge(baseMerge(EmptyObj, document), abVariant)

\* document.posthogFeatureFlagKey || `ab_test_${String(document.id)}`
featureFlagKeyOf(document) ==
  IF Truthy(Get(document, "posthogFeatureFlagKey"))
    THEN Get(document, "posthogFeatureFlagKey").v
    ELSE "ab_test_" \o Text(Get(document, "id"))

\* the arm for a flag response: false, null and undefined are control, true is
\* variant, a string is used as it is, anything else is control
assignedVariantKey(flagResponse) ==
  CASE flagResponse.k \in {"undef", "null"} -> "control"
    [] flagResponse.k = "bool" -> IF flagResponse.v = "true" THEN "variant" ELSE "control"
    [] flagResponse.k = "str" -> flagResponse.v
    [] OTHER -> "control"

\* if (assignedVariantKey === 'variant')
servesVariant(arm, document) == arm = "variant"

\* the object a resolver returns, with what it did on the way
Resolved(ret, arm, key, id, served, evals) ==
  [ret |-> ret, arm |-> arm, key |-> key, distinctId |-> id, served |-> served,
   evals |-> evals]

\* newDistinctIdGenerated: the fresh id when the cookie gave none, else undefined
newDistinctIdGenerated_none(jar, uuid) == Undef
newDistinctIdGenerated(jar, uuid) == IF Truthy(jar) THEN Undef ELSE Str(uuid)

\* getServerSideABVariant(document, cookies, context): jar is the value of the
\* _ph_id cookie, uuid what crypto.randomUUID() gives, ev the outcome of
\* posthogClient.getFeatureFlag
getServerSideABVariant(document, jar, uuid, ev) ==
  IF ~Truthy(Get(document, "enableABTesting")) \/ ~Truthy(Get(document, "abVariant"))
    THEN Resolved(document, "", "", "", "base", <<>>)
  ELSE
    Then([key |-> featureFlagKeyOf(document),
          id |-> IF Truthy(jar) THEN jar.v ELSE uuid,
          gen |-> newDistinctIdGenerated(jar, uuid),
          arm |-> IF ev.throws THEN "control" ELSE assignedVariantKey(ev.response)],
      LAMBDA c :
        Then(IF ~ev.throws /\ servesVariant(c.arm, document)
               THEN merge(document, Get(document, "abVariant")) ELSE document,
          LAMBDA finalDocument :
            Resolved(
              Merge(finalDocument,
                    Obj([x \in {"posthogAssignedVariantKey", "posthogFeatureFlagKeyUsed",
                                "posthogServerDistinctId", "posthogNewDistinctIdGenerated"} |->
                           CASE x = "posthogAssignedVariantKey" -> Str(c.arm)
                             [] x = "posthogFeatureFlagKeyUsed" -> Str(c.key)
                             [] x = "posthogServerDistinctId" -> Str(c.id)
                             [] OTHER -> c.gen])),
              c.arm, c.key, c.id,
              IF ~ev.throws /\ servesVariant(c.arm, document) THEN "variant" ELSE "base",
              <<[key |-> c.key, distinctId |-> c.id]>>)))

\* { ...document, ...document.abVariant }
spreadVariant(document, abVariant) == Merge(document, abVariant)

\* getABTestVariant(document, posthog): ph is "none" without a client, else
\* what posthog.isFeatureEnabled does ("on", "off", "throws")
getABTestVariant(document, ph) ==
  IF ~Truthy(Get(document, "enableABTesting")) THEN Resolved(document, "", "", "", "base", <<>>)
  ELSE IF ph = "none" THEN Resolved(document, "", "", "", "base", <<>>)
  ELSE IF ph = "on" /\ Truthy(Get(document, "abVariant"))
    THEN Resolved(spreadVariant(document, Get(document, "abVariant")), "variant",
                  featureFlagKeyOf(document), "", "variant",
                  <<[key |-> featureFlagKeyOf(document), distinctId |-> ""]>>)
  ELSE Resolved(document, "control", featureFlagKeyOf(document), "", "base",
                <<[key |-> featureFlagKeyOf(document), distinctId |-> ""]>>)

\* ------------------------------------------------- one visitor's resolutions
ResolveMeta == Obj([x \in {"a", "b", "l"} |->
                      CASE x = "a" -> Str("1") [] x = "b" -> Str("2")
                        [] OTHER -> Arr(<<Str("x"), Str("y")>>)])

VariantMeta == Obj([x \in {"b", "l"} |->
                      IF x = "b" THEN Str("9") ELSE Arr(<<Str("z")>>)])

ResolveVariants ==
  { Undef, EmptyObj,
    Obj([x \in {"title"} |-> Str("V")]),
    Obj([x \in {"meta"} |-> VariantMeta]),
    Obj([x \in {"title", "meta"} |-> IF x = "title" THEN Str("V") ELSE VariantMeta]) }

ResolveDocs ==
  ObjectsOver([id |-> {Str("d1")},
               enableABTesting |-> {JSFalse, JSTrue},
               posthogFeatureFlagKey |-> {Undef, Str("f1")},
               posthogVariantName |-> {Undef, Str("blue")},
               title |-> {Str("T")},
               meta |-> {Undef, ResolveMeta},
               abVariant |-> ResolveVariants])

\* what posthogClient.getFeatureFlag can do
Evaluations ==
  {[throws |-> FALSE, response |-> r] :
     r \in {Undef, Null, JSFalse, JSTrue, Str("control"), Str("variant"), Str("blue"),
            EmptyObj}}
  \cup {[throws |-> TRUE, response |-> Undef]}

\* what crypto.randomUUID() can give
UUIDs == {"g1", "g2"}

\* a published document and a visitor with or without the _ph_id cookie
InitResolve ==
  /\ doc \in ResolveDocs
  /\ fields = {}
  /\ flags = <<>>
  /\ exps = <<>>
  /\ clock = 0
  /\ last = NoLast
  /\ hist = <<>>
  /\ copies = 0
  /\ n = 0
  /\ cookies \in {Undef, Str("u1")}
  /\ config = NoConfig
  /\ heap = <<>>
  /\ inflight = <<>>

\* the summary of a resolver call
ResolveSummary(op, r) ==
  [op |-> op, key |-> r.key, distinctId |-> r.distinctId, arm |-> r.arm,
   evals |-> Len(r.evals)]

\* a server render of the document for the visitor
ServerResolve ==
  /\ n < MaxResolves
  /\ \E ev \in Evaluations, uuid \in UUIDs :
       \E r \in {getServerSideABVariant(doc, cookies, uuid, ev)} :
          /\ last' = [NoLast EXCEPT !.op = "server", !.orig = doc, !.ret = r.ret,
                                    !.key = r.key, !.arm = r.arm,
                                    !.distinctId = r.distinctId, !.served = r.served,
                                    !.evals = r.evals, !.data = ev.response,
                                    !.outcome = IF ev.throws THEN "threw" ELSE "answered"]
          /\ hist' = Remember(hist, ResolveSummary("server", r))
          /\ n' = n + 1
          /\ UNCHANGED <<doc, fields, flags, exps, clock, copies, cookies, config, heap, inflight>>

\* a client render of the document
ClientResolve ==
  /\ n < MaxResolves
  /\ \E ph \in {"none", "on", "off", "throws"} :
       \E r \in {getABTestVariant(doc, ph)} :
          /\ last' = [NoLast EXCEPT !.op = "client", !.orig = doc, !.ret = r.ret,
                                    !.key = r.key, !.arm = r.arm,
                                    !.distinctId = r.distinctId, !.served = r.served,
                                    !.evals = r.evals, !.outcome = ph]
          /\ hist' = Remember(hist, ResolveSummary("client", r))
          /\ n' = n + 1
          /\ UNCHANGED <<doc, fields, flags, exps, clock, copies, cookies, config, heap, inflight>>

NextResolve == ServerResolve \/ ClientResolve

SpecResolve == InitResolve /\ [][NextResolve]_vars

\* ----------------------------------------------- variant schema (plugin)
\* A field definition is [name, type, required, hooks]: name "" for a field
\* without a name (a row, a ui field), hooks the address of its hooks object
\* (0: none).  A hooks object is [beforeValidate |-> address of the list, or 0]
\* and a hook list is a sequence of hook names; both live in the heap, so that
\* a copied field definition and its original can refer to the same object.
\* The collection's options are [present, enabled, fields, excludeFields] with
\* fields and excludeFields [given, names].
Range(q) == {q[i] : i \in 1..Len(q)}

\* collectionsConfig[slug] after normalisation: an array entry is
\* { enabled: true }, an object entry { enabled: true, ...config }
collectionConfigOf(options) ==
  IF options.form = "array"
    THEN [options EXCEPT !.enabled = "true",
                         !.fields = [given |-> FALSE, names |-> <<>>],
                         !.excludeFields = [given |-> FALSE, names |-> <<>>]]
    ELSE [options EXCEPT !.enabled = IF options.enabled = "undef" THEN "true"
                                     ELSE options.enabled]

\* collectionConfig && collectionConfig.enabled !== false
isConfiguredAndEnabled(options) ==
  options.form # "absent" /\ collectionConfigOf(options).enabled # "false"

\* collectionConfig.excludeFields || ['id', 'createdAt', 'updatedAt']
excludeFieldsOf(cc) ==
  IF cc.excludeFields.given THEN cc.excludeFields.names
  ELSE <<"id", "createdAt", "updatedAt">>

\* contentFields: the named fields, then those selected by fields, or else
\* those not excluded
contentFieldsOf_exclude(collectionFields, cc) ==
  SelectSeq(collectionFields,
            LAMBDA field : field.name # "" /\ field.name \notin Range(excludeFieldsOf(cc)))
contentFieldsOf(collectionFields, cc) ==
  IF cc.fields.given /\ Len(cc.fields.names) > 0
    THEN SelectSeq(collectionFields,
                   LAMBDA field : field.name # "" /\ field.name \in Range(cc.fields.names))
    ELSE SelectSeq(collectionFields,
                   LAMBDA field : field.name # ""
                                  /\ field.name \notin Range(excludeFieldsOf(cc)))

\* the field types that get the sanitizing beforeValidate hook
SanitizedTypes == {"relationship", "upload", "array", "blocks", "richText"}

\* const fieldCopy = { ...field }; fieldCopy.required = false: a new object
\* whose hooks is the same object as the original's
fieldCopyOf(field, h) == [field |-> [field EXCEPT !.required = FALSE], heap |-> h]

\* if (!fieldCopy.hooks) fieldCopy.hooks = {}
withHooks(c) ==
  IF c.field.hooks # 0 THEN c
  ELSE [field |-> [c.field EXCEPT !.hooks = Len(c.heap) + 1],
        heap |-> Append(c.heap, [beforeValidate |-> 0])]

\* if (!fieldCopy.hooks.beforeValidate) fieldCopy.hooks.beforeValidate = []
withBeforeValidate(c) ==
  IF c.heap[c.field.hooks].beforeValidate # 0 THEN c
  ELSE [field |-> c.field,
        heap |-> Append([c.heap EXCEPT ![c.field.hooks].beforeValidate = Len(c.heap) + 1],
                        <<>>)]

\* fieldCopy.hooks.beforeValidate.push(the sanitizing hook)
pushSanitizer(c) ==
  [field |-> c.field,
   heap |-> [c.heap EXCEPT ![c.heap[c.field.hooks].beforeValidate] =
                             Append(@, "sanitizeObject")]]

\* the callback of contentFields.map(...): one variant field
variantFieldOf(field, h) ==
  Then(fieldCopyOf(field, h), LAMBDA c :
    IF c.field.type \in SanitizedTypes
      THEN Then(withHooks(c), LAMBDA c1 :
           Then(withBeforeValidate(c1), LAMBDA c2 : pushSanitizer(c2)))
      ELSE c)

\* contentFields.map(...), field by field in order
RECURSIVE variantFieldsOf(_, _, _)
variantFieldsOf(contentFields, acc, h) ==
  IF contentFields = <<>> THEN [fields |-> acc, heap |-> h]
  ELSE Then(variantFieldOf(Head(contentFields), h), LAMBDA c :
         variantFieldsOf(Tail(contentFields), Append(acc, c.field), c.heap))

\* abTestingPlugin(pluginOptions)(config) for one collection: the collection
\* with the abVariant group of variant fields and the beforeChange hook, or
\* the collection as it was
abTestingPlugin(options, cfg, h) ==
  IF options.disabled \/ ~isConfiguredAndEnabled(options)
    THEN [config |-> cfg, heap |-> h, mapping |-> {}]
  ELSE Then(contentFieldsOf(cfg.fields, collectionConfigOf(options)), LAMBDA contentFields :
       Then(variantFieldsOf(contentFields, <<>>, h), LAMBDA v :
         [config |-> [cfg EXCEPT !.variantFields = v.fields, !.modified = TRUE,
                                 !.beforeChange = cfg.beforeChange + 1],
          heap |-> v.heap,
          mapping |-> {contentFields[i].name : i \in 1..Len(contentFields)}]))

\* ---- the plugin applied to one collection
NameLists == {<<>>, <<"title">>, <<"content", "title">>, <<"nope", "id">>}

NameChoices ==
  {[given |-> FALSE, names |-> <<>>]} \cup {[given |-> TRUE, names |-> q] : q \in NameLists}

PluginOptions ==
  {[form |-> "absent", disabled |-> FALSE, enabled |-> "undef",
    fields |-> [given |-> FALSE, names |-> <<>>],
    excludeFields |-> [given |-> FALSE, names |-> <<>>]],
   [form |-> "array", disabled |-> FALSE, enabled |-> "undef",
    fields |-> [given |-> FALSE, names |-> <<>>],
    excludeFields |-> [given |-> FALSE, names |-> <<>>]]}
  \cup [form : {"object"}, disabled : BOOLEAN, enabled : {"undef", "true", "false"},
        fields : NameChoices, excludeFields : NameChoices]

\* the ways the content field's hooks can look before the plugin runs: no
\* hooks, a hooks object without beforeValidate, one with a beforeValidate list
InitialHeaps ==
  {<<>>, <<[beforeValidate |-> 0]>>, <<[beforeValidate |-> 2], <<"own">>>>}

\* the collection's fields in schema order
SchemaFields(contentType, required, h) ==
  <<[name |-> "id", type |-> "text", required |-> TRUE, hooks |-> 0],
    [name |-> "title", type |-> "text", required |-> required, hooks |-> 0],
    [name |-> "", type |-> "row", required |-> FALSE, hooks |-> 0],
    [name |-> "content", type |-> contentType, required |-> required,
     hooks |-> IF h = <<>> THEN 0 ELSE 1],
    [name |-> "createdAt", type |-> "date", required |-> FALSE, hooks |-> 0]>>

ContentTypes == {"text", "relationship", "upload", "array", "blocks", "richText"}

InitPlugin ==
  /\ doc = Undef
  /\ fields = {}
  /\ flags = <<>>
  /\ exps = <<>>
  /\ clock = 0
  /\ last = NoLast
  /\ hist = <<>>
  /\ copies = 0
  /\ n = 0
  /\ cookies = Undef
  /\ heap \in InitialHeaps
  /\ inflight = <<>>
  /\ \E contentType \in ContentTypes, required \in BOOLEAN :
       config = [NoConfig EXCEPT !.slug = "posts",
                                 !.fields = SchemaFields(contentType, required, heap)]

\* the config is built: the plugin runs once, with some options
RunPlugin ==
  /\ n = 0
  /\ \E options \in PluginOptions :
       \E r \in {abTestingPlugin(options, config, heap)} :
          /\ config' = r.config
          /\ heap' = r.heap
          /\ fields' = r.mapping
          /\ last' = [NoLast EXCEPT !.op = "plugin", !.options = options,
                                    !.config = config, !.heap = heap]
          /\ n' = 1
          /\ UNCHANGED <<doc, flags, exps, clock, hist, copies, cookies, inflight>>

NextPlugin == RunPlugin

SpecPlugin == InitPlugin /\ [][NextPlugin]_vars

\* ------------------------------------------------ A/B-testable fields
\* reads and writes of one field
MaxFieldOps == 2

\* req.abVariant || 'default' ("" stands for a request without abVariant)
requestVariant(abVariant) == IF abVariant = "" THEN "default" ELSE abVariant

\* the beforeChange hook injectAbTestableIntoFields adds to a field: a value
\* that is an object with the key of some configured variant code is kept,
\* anything else is wrapped as { default: value }
abBeforeChange(value, variants) ==
  IF Truthy(value) /\ TypeofObject(value)
     /\ \E i \in 1..Len(variants) : value.k = "obj" /\ variants[i] \in Keys(value)
    THEN value
    ELSE Obj([x \in {"default"} |-> value])

\* the afterRead hook: value[variant] !== undefined ? value[variant] : value.default
abAfterRead(value, abVariant) ==
  IF ~Truthy(value) \/ ~TypeofObject(value) THEN value
  ELSE IF Get(value, requestVariant(abVariant)) # Undef
    THEN Get(value, requestVariant(abVariant))
    ELSE Get(value, "default")

\* the values a client may write: per-variant structures, partial or whole,
\* and plain values
FieldValues ==
  ObjectsOver([default |-> {Undef, Str("D"), Null},
               va |-> {Undef, Str("A"), Null},
               vb |-> {Undef, Str("B")}])
  \cup {Undef, Null, Str("P"), Str(""), Arr(<<Str("x")>>),
        Obj([x \in {"text"} |-> Str("x")])}

\* the variant codes the plugin is configured with
VariantCodes == {<<>>, <<"va">>, <<"va", "vb">>}

InitField ==
  /\ doc = Undef
  /\ fields = {}
  /\ flags = <<>>
  /\ exps = <<>>
  /\ clock = 0
  /\ last = NoLast
  /\ hist = <<>>
  /\ copies = 0
  /\ n = 0
  /\ cookies = Undef
  /\ config \in {[NoConfig EXCEPT !.variants = q] : q \in VariantCodes}
  /\ heap = <<>>
  /\ inflight = <<>>

\* a write of the field: the hook's result is stored
WriteField ==
  /\ n < MaxFieldOps
  /\ \E value \in FieldValues :
       /\ doc' = abBeforeChange(value, config.variants)
       /\ last' = [NoLast EXCEPT !.op = "write", !.orig = doc, !.data = value,
                                 !.ret = abBeforeChange(value, config.variants)]
  /\ n' = n + 1
  /\ UNCHANGED <<fields, flags, exps, clock, hist, copies, cookies, config, heap, inflight>>

\* a read of the field for a request with or without abVariant
ReadField ==
  /\ n < MaxFieldOps
  /\ \E abVariant \in {"", "va", "vb"} :
       last' = [NoLast EXCEPT !.op = "read", !.orig = doc, !.arm = abVariant,
                              !.ret = abAfterRead(doc, abVariant)]
  /\ n' = n + 1
  /\ UNCHANGED <<doc, fields, flags, exps, clock, hist, copies, cookies, config, heap, inflight>>

NextField == WriteField \/ ReadField

SpecField == InitField /\ [][NextField]_vars

\* ------------------------------------------- concurrent flag upserts
\* Two requests to POST /posthog/feature-flags are handled at the same time.
\* Each is the handler's sequence of awaits: the lookup GET, then the PATCH of
\* the flag the lookup found or the CREATE.  A request is
\* [key, pc, existingId, creates, status] with pc "start", "looked" or "done".
Requests == {1, 2}

\* the project either refuses a second flag with a key it already has
\* (answering 400) or stores it
CreateRefused(fl, key, unique) == unique /\ HasFlag(fl, key)

\* await fetch(.../feature_flags/?key=...): existingFlag is what the list
\* holds at this moment
Lookup(p) ==
  /\ inflight[p].pc = "start"
  /\ inflight' = [inflight EXCEPT
       ![p].pc = "looked",
       ![p].existingId =
          FindByKey(LookupResults(flags, inflight[p].key, last.env.filtered),
                    inflight[p].key)]
  /\ n' = n + 1
  /\ UNCHANGED <<doc, fields, flags, exps, clock, last, hist, copies, cookies, config, heap>>

\* if (existingFlag): PATCH feature_flags/<id>/, answer 200 updated
PatchFound(p) ==
  /\ inflight[p].pc = "looked"
  /\ inflight[p].existingId # 0
  /\ flags' = PatchFlag(flags, inflight[p].existingId,
                        featureFlagConfigOf(Obj([x \in {"key"} |-> Str(inflight[p].key)]),
                                            clock))
  /\ inflight' = [inflight EXCEPT ![p].pc = "done", ![p].status = 200]
  /\ n' = n + 1
  /\ UNCHANGED <<doc, fields, exps, clock, last, hist, copies, cookies, config, heap>>

\* else: POST feature_flags/, answer 201 created, or 500 when the project
\* refuses the flag
CreateMissing(p) ==
  /\ inflight[p].pc = "looked"
  /\ inflight[p].existingId = 0
  /\ flags' = IF CreateRefused(flags, inflight[p].key, last.env.unique) THEN flags
              ELSE CreateFlag(flags,
                     featureFlagConfigOf(Obj([x \in {"key"} |-> Str(inflight[p].key)]),
                                         clock))
  /\ inflight' = [inflight EXCEPT
       ![p].pc = "done",
       ![p].creates = 1,
       ![p].status = IF CreateRefused(flags, inflight[p].key, last.env.unique)
                       THEN 500 ELSE 201]
  /\ n' = n + 1
  /\ UNCHANGED <<doc, fields, exps, clock, last, hist, copies, cookies, config, heap>>

RaceKeys == {"k1", "k2"}

\* two requests have arrived and none has started; the project is empty or
\* holds one flag
InitRace ==
  /\ doc = Undef
  /\ fields = {}
  /\ flags \in {<<>>, <<ExistingFlag("k1", TRUE)>>, <<ExistingFlag("k2", FALSE)>>}
  /\ exps = <<>>
  /\ clock = 0
  /\ \E filtered \in BOOLEAN, unique \in BOOLEAN :
       last = [NoLast EXCEPT !.op = "race",
                             !.env = [filtered |-> filtered, unique |-> unique],
                             !.before = flags]
  /\ hist = <<>>
  /\ copies = 0
  /\ n = 0
  /\ cookies = Undef
  /\ config = NoConfig
  /\ heap = <<>>
  /\ inflight \in [Requests -> {[key |-> k, pc |-> "start", existingId |-> 0,
                                 creates |-> 0, status |-> 0] : k \in RaceKeys}]

NextRace == \E p \in Requests : Lookup(p) \/ PatchFound(p) \/ CreateMissing(p)

SpecRace == InitRace /\ [][NextRace]_vars

\* ---------------------------------------------------------------- claims
IsSave == last.op = "save"
OrigEnabled == Get(last.orig, "enableABTesting") = JSTrue
DataEnabled == Get(last.data, "enableABTesting") = JSTrue
FirstEnable == IsSave /\ DataEnabled /\ ~OrigEnabled

\* C1: after any save whose incoming enableABTesting is not truthy (false,
\* or a write that omits the toggle), the returned abVariant is the empty
\* object.
C1_VariantEmptyUnlessEnabled ==
  (IsSave /\ ~Truthy(Get(last.data, "enableABTesting")))
    => Get(last.ret, "abVariant") = EmptyObj

\* a true -> false save whose write carried a non-empty abVariant
C1_Witness ==
  /\ IsSave /\ OrigEnabled
  /\ Get(last.data, "enableABTesting") = JSFalse
  /\ Keys(Get(last.data, "abVariant")) # {}
  /\ Get(last.ret, "abVariant") = EmptyObj

\* C5: on a true -> true save whose write carries an abVariant object, the
\* hook returns that abVariant unchanged.
C5_SteadyStateKeepsEdits ==
  (IsSave /\ OrigEnabled /\ DataEnabled /\ Get(last.data, "abVariant").k = "obj")
    => Get(last.ret, "abVariant") = Get(last.data, "abVariant")

\* a true -> true save that edits abVariant.title and changes the base title
C5_Witness ==
  /\ IsSave /\ OrigEnabled /\ DataEnabled
  /\ Get(Get(last.data, "abVariant"), "title") = Str("V1")
  /\ Get(last.data, "title") = Str("T2")
  /\ Get(last.orig, "title") # Str("T2")
  /\ Get(Get(last.ret, "abVariant"), "title") = Str("V1")

\* C6: while enableABTesting is stored as true, base content has been copied
\* into the variant exactly once since it became true (in the save that made
\* the transition: a save copies iff it turns the toggle from not-true to
\* true), and a true -> false save clears the variant.
C6_CopiedOncePerEnabledPeriod ==
  /\ (doc.k = "obj" /\ Get(doc, "enableABTesting") = JSTrue) => copies = 1
  /\ IsSave => (last.copied <=> (DataEnabled /\ ~OrigEnabled))
  /\ (IsSave /\ OrigEnabled /\ Get(last.data, "enableABTesting") = JSFalse)
       => (Get(last.ret, "abVariant") = EmptyObj /\ Get(doc, "abVariant") = EmptyObj)

\* the third save of an enabled period: enabled, saved again, saved again
C6_Witness ==
  /\ n = 3 /\ IsSave /\ OrigEnabled /\ DataEnabled
  /\ copies = 1 /\ ~last.copied
  /\ Get(last.data, "title") = Str("T2")

\* C8 (as claimed): when an enabled save carries no flag key and a flag is
\* created, the returned posthogFeatureFlagKey is the key of that flag.
C8_Claim_GeneratedKeyPersisted ==
  (IsSave /\ DataEnabled /\ ~Truthy(Get(last.data, "posthogFeatureFlagKey")))
    => \A i \in 1..Len(last.calls) :
         last.calls[i].m = "CREATE"
           => Get(last.ret, "posthogFeatureFlagKey") = Str(last.calls[i].key)

\* C10 (as claimed): after a true -> false save of a document that has a flag
\* key, the flag with that key is still in the project and is inactive.
C10_Claim_DeactivatedOnDisable ==
  (IsSave /\ OrigEnabled /\ Get(last.data, "enableABTesting") = JSFalse
     /\ Truthy(Get(doc, "posthogFeatureFlagKey"))
     /\ \E i \in 1..Len(flags) : flags[i].key = Get(doc, "posthogFeatureFlagKey").v)
    => \A i \in 1..Len(flags) :
         flags[i].key = Get(doc, "posthogFeatureFlagKey").v => ~flags[i].active

\* some object inside x, at any depth, has a system key
RECURSIVE HasSystemKey(_)
HasSystemKey(x) ==
  IF x.k = "arr" THEN \E i \in 1..Len(x.v) : HasSystemKey(x.v[i])
  ELSE IF x.k = "obj"
    THEN (DOMAIN x.v) \cap SystemKeys # {} \/ \E key \in DOMAIN x.v : HasSystemKey(x.v[key])
  ELSE FALSE

LastSource(f) == sourceValueOf(last.data, last.orig, f)

\* C2 (as claimed): on a first-enable save every selected field whose source
\* (the write's value, else the snapshot's) is defined and carries no system
\* key is copied deep-equal into abVariant, and a selected field with no
\* source is absent from abVariant.
C2_Claim_CopyIsDeepEqual ==
  FirstEnable =>
    \A f \in fields :
      /\ (LastSource(f) # Undef /\ ~HasSystemKey(LastSource(f)))
           => Get(Get(last.ret, "abVariant"), f) = LastSource(f)
      /\ LastSource(f) = Undef => f \notin Keys(Get(last.ret, "abVariant"))

\* C3 (as claimed): after a first-enable save the keys of abVariant are
\* among the selected field names, whatever the write's abVariant held.
C3_Claim_KeysWithinSelection ==
  FirstEnable => Keys(Get(last.ret, "abVariant")) \subseteq fields

PostHogVariantKeys == {"posthogVariantName", "posthogFeatureFlagKey"}

\* C3 (amended): after a first-enable save the keys of abVariant are among
\* the selected field names and the two PostHog keys; a PostHog key is there
\* only when the write's abVariant carried a truthy value for it, and every
\* other key of the write's abVariant is gone unless it is a selected field
\* with a source.
C3_KeysWithinSelectionAndPostHogKeys ==
  FirstEnable =>
    /\ Keys(Get(last.ret, "abVariant")) \subseteq fields \cup PostHogVariantKeys
    /\ \A key \in PostHogVariantKeys :
         key \in Keys(Get(last.ret, "abVariant"))
           <=> Truthy(Get(Get(last.data, "abVariant"), key))
    /\ \A f \in fields :
         f \in Keys(Get(last.ret, "abVariant")) <=> LastSource(f) # Undef

\* a first-enable save whose write carried abVariant {title, id,
\* posthogVariantName} under the selection {content, excerpt}
C3_Witness ==
  /\ FirstEnable
  /\ fields = {"content", "excerpt"}
  /\ Keys(Get(last.data, "abVariant")) = {"title", "id", "posthogVariantName"}
  /\ Keys(Get(last.ret, "abVariant")) = {"content", "excerpt", "posthogVariantName"}

\* C4 (as claimed): after a first-enable save no object at any depth inside
\* the returned abVariant has a key id, _id, __v, createdAt or updatedAt.
C4_Claim_NoSystemKeysAtAnyDepth ==
  FirstEnable => ~HasSystemKey(Get(last.ret, "abVariant"))

\* C7: two successive calls of the flag upsert endpoint with the same key,
\* every external call succeeding and no flag with that key before the first,
\* answer created then updated, issue one CREATE in total and leave exactly
\* one flag with that key.
C7_UpsertTwiceCreatesOnce ==
  (/\ Len(hist) = 2
   /\ hist[1].op = "upsert" /\ hist[2].op = "upsert"
   /\ Truthy(hist[1].reqKey) /\ hist[1].reqKey = hist[2].reqKey
   /\ hist[1].allOk /\ hist[2].allOk
   /\ ~hist[1].existed)
    => /\ hist[1].action = "created" /\ hist[2].action = "updated"
       /\ hist[1].creates + hist[2].creates = 1
       /\ Cardinality({i \in 1..Len(flags) : flags[i].key = hist[1].reqKey.v}) = 1

\* k1 upserted twice in a project that already holds another flag
C7_Witness ==
  /\ Len(hist) = 2 /\ n = 2
  /\ hist[1].reqKey = Str("k1") /\ hist[2].reqKey = Str("k1")
  /\ hist[1].allOk /\ hist[2].allOk
  /\ hist[1].action = "created" /\ hist[2].action = "updated"
  /\ Len(flags) = 2 /\ flags[1].key = "k2"

\* C9 (as claimed): the flag a save's upsert created or updated has exactly
\* two arms at 50/50, keyed control and the document's posthogVariantName
\* (variant when none is given).
C9_Claim_ArmsControlAndVariantLabel ==
  (IsSave /\ last.status \in {200, 201})
    => \A i \in 1..Len(flags) :
         flags[i].key = last.key
           => /\ Len(flags[i].variants) = 2
              /\ \A j \in 1..2 : flags[i].variants[j].rollout_percentage = 50
              /\ {flags[i].variants[j].key : j \in 1..2}
                   = {"control",
                      Text(OrElse(Get(last.data, "posthogVariantName"), Str("variant")))}

\* the write requests among the latest operation's calls
WriteCalls == {i \in 1..Len(last.calls) : last.calls[i].m # "GET"}

\* C11 (as claimed): an authorized deactivate call with a key no flag of the
\* project has answers 200 and issues no write request.
C11_Claim_NotFoundIsSuccessNoWrite ==
  (/\ last.op = "deactivate" /\ last.auth = "Bearer tok"
   /\ last.env.token # "" /\ last.env.configured /\ last.env.parsed
   /\ last.env.get = "ok" /\ last.env.write = "ok"
   /\ Truthy(Get(last.data, "featureFlagKey"))
   /\ ~HasFlag(last.before, Text(Get(last.data, "featureFlagKey"))))
    => /\ last.status = 200
       /\ WriteCalls = {}
       /\ flags = last.before

\* the document of the latest save declares at least one metric
DeclaresMetrics ==
  /\ Get(last.data, "experimentMetrics").k = "arr"
  /\ Len(Get(last.data, "experimentMetrics").v) > 0

\* the latest save asked the experiments endpoint for an experiment
ExperimentRequested == \E i \in 1..Len(last.calls) : last.calls[i].m = "SYNC_EXPERIMENT"

\* C12 (as claimed): on an enabled save whose flag sync answered 2xx, an
\* experiment request is issued exactly when the document declares at least
\* one metric.
C12_Claim_ExperimentIffMetrics ==
  (IsSave /\ DataEnabled /\ last.status \in 200..299)
    => (ExperimentRequested <=> DeclaresMetrics)

\* the experiments of the project tied to a flag key
ExperimentsOf(key) == {i \in 1..Len(exps) : exps[i].feature_flag_key = key}

\* C13 (as claimed): whatever saves have happened, the project holds at most
\* one experiment per flag key.
C13_Claim_OneExperimentPerFlagKey ==
  \A i \in 1..Len(exps) : Cardinality(ExperimentsOf(exps[i].feature_flag_key)) <= 1

IsEndpointCall == last.op \in {"upsert", "deactivate", "experiment", "list"}

\* C15: a call of any sync endpoint is answered 500 when the server has no
\* internal token, and 401 when it has one and the Authorization header is
\* not "Bearer <token>"; in both cases no call reaches the external service
\* and the project's flags and experiments stay as they were.
C15_WithAuthRejects ==
  [][(last'.op \in {"upsert", "deactivate", "experiment", "list"}
      /\ (last'.env.token = "" \/ last'.auth # "Bearer " \o last'.env.token))
       => /\ last'.status = (IF last'.env.token = "" THEN 500 ELSE 401)
          /\ last'.calls = <<>>
          /\ flags' = flags /\ exps' = exps]_vars

\* a deactivate call with a wrong token against a project that holds the flag
C15_Witness ==
  /\ last.op = "deactivate" /\ last.auth = "Bearer bad" /\ last.env.token = "tok"
  /\ last.status = 401
  /\ HasFlag(flags, Text(Get(last.data, "featureFlagKey")))

\* C16 (as claimed): an authorized call of a POST endpoint whose body cannot
\* be parsed is answered 400, and nothing is created or changed.
C16_Claim_ParseErrorIs400 ==
  (/\ last.op \in {"upsert", "deactivate", "experiment"}
   /\ last.auth = "Bearer tok" /\ last.env.token = "tok"
   /\ last.env.configured /\ ~last.env.parsed)
    => /\ last.status = 400
       /\ last.calls = <<>>
       /\ flags = last.before

\* C17: sanitizeObject applied to a result of sanitizeObject returns it
\* unchanged, and a value that is no object (a primitive, null, undefined) is
\* returned unchanged by the first application already.
C17_SanitizeIdempotent ==
  last.op = "sanitize"
    => /\ n >= 2 => last.ret = last.orig
       /\ (~Truthy(last.orig) \/ ~TypeofObject(last.orig)) => last.ret = last.orig

\* the second pass, over a sanitized object with a nested row
C17_Witness ==
  /\ last.op = "sanitize" /\ n = 2
  /\ last.ret = Obj([x \in {"child"} |-> Obj([y \in {"text"} |-> Str("a")])])

\* the document's configured variant label: posthogVariantName, else "variant"
VariantLabel(document) ==
  IF Truthy(Get(document, "posthogVariantName"))
    THEN Get(document, "posthogVariantName").v ELSE "variant"

\* the last operation was a server resolution that evaluated the flag
ServerEvaluated == last.op = "server" /\ last.evals # <<>>

\* C18: getServerSideABVariant serves the variant content exactly when the
\* evaluation answered and its arm (false/null control, true variant, a string
\* as it is) equals the document's variant label; in every other case it
\* serves the base content, and a throwing evaluation is reported as control.
C18_Claim_VariantIffArmIsLabel ==
  ServerEvaluated =>
    /\ last.served = "variant" <=>
         (last.outcome = "answered" /\ assignedVariantKey(last.data) = VariantLabel(last.orig))
    /\ last.outcome = "threw" =>
         Get(last.ret, "posthogAssignedVariantKey") = Str("control")

RECURSIVE BaseKept(_, _, _)
\* every key of base that variant lacks has its base value in result, at every
\* depth of nested objects
BaseKept(base, variant, result) ==
  \A x \in Keys(base) :
    IF x \notin Keys(variant) THEN x \in Keys(result) /\ result.v[x] = base.v[x]
    ELSE (base.v[x].k = "obj" /\ variant.v[x].k = "obj") =>
           (x \in Keys(result) /\ BaseKept(base.v[x], variant.v[x], result.v[x]))

\* C19: when a resolver (server or client) serves the variant, every key of the
\* base document that abVariant lacks keeps its base value at every nesting
\* depth: no base-only field is removed.
C19_Claim_DeepMergeKeepsBase ==
  (last.op \in {"server", "client"} /\ last.served = "variant") =>
    BaseKept(last.orig, Get(last.orig, "abVariant"), last.ret)

\* a server resolution of an enabled document for a visitor without the
\* _ph_id cookie: the case the fallback resolver is for
ResolvedWithoutId(h) == h.op = "server" /\ h.key # "" /\ h.distinctId \in UUIDs

\* two resolutions without a cookie that used the same (distinctId, flagKey)
\* gave the same arm
SamePairSameArm ==
  \A i, j \in DOMAIN hist :
    (/\ ResolvedWithoutId(hist[i]) /\ ResolvedWithoutId(hist[j])
     /\ hist[i].distinctId = hist[j].distinctId /\ hist[i].key = hist[j].key)
    => hist[i].arm = hist[j].arm

\* C20: without an authoritative distinct id the arm is resolved by a pure
\* function of (distinctId, flagKey): no external call is made, and two
\* resolutions with the same pair give the same arm.  (The parity of the hash
\* is a further restriction on that function.)
C20_Claim_FallbackIsPureFunction ==
  /\ \A i \in DOMAIN hist : ResolvedWithoutId(hist[i]) => hist[i].evals = 0
  /\ SamePairSameArm

\* the latest operation is an upsert that got as far as the lookup
UpsertLookedUp == last.op = "upsert" /\ CountCalls(last.calls, "GET") > 0

\* C26 (as claimed): the upsert issues CREATE only after a lookup that
\* succeeded and listed no flag with the key; after a failed lookup it issues
\* no CREATE and answers with an error.
C26_Claim_CreateOnlyAfterNotFound ==
  UpsertLookedUp =>
    /\ \A i \in 1..Len(last.calls) :
         last.calls[i].m = "CREATE" =>
           (last.env.get = "ok" /\ ~HasFlag(last.before, last.calls[i].key))
    /\ last.env.get # "ok" =>
         (CountCalls(last.calls, "CREATE") = 0 /\ last.status >= 400)

\* C27 (as claimed): a deactivate call changes the active state of no flag
\* whose key differs from the requested key, whatever the lookup lists.
C27_Claim_DeactivateOnlyRequestedKey ==
  last.op = "deactivate" =>
    /\ Len(flags) = Len(last.before)
    /\ \A i \in 1..Len(flags) :
         flags[i].key # Text(Get(last.data, "featureFlagKey")) =>
           flags[i].active = last.before[i].active

\* C23 (as claimed): a server resolution for a visitor without the cookie
\* stores the id it generated in the cookie jar, and two such resolutions in a
\* row evaluate the flag with the same id.
C23_Claim_GeneratedIdPersisted ==
  /\ (ServerEvaluated /\ last.distinctId \in UUIDs) => cookies = Str(last.distinctId)
  /\ (Len(hist) = 2 /\ ResolvedWithoutId(hist[1]) /\ hist[2].op = "server"
      /\ hist[2].key # "")
       => hist[2].distinctId = hist[1].distinctId

\* C23 (amended): a server resolution that evaluates the flag for a visitor
\* without the cookie evaluates it with a freshly generated id and returns that
\* id as posthogServerDistinctId and posthogNewDistinctIdGenerated; the cookie
\* jar is left as it was, so the next resolution generates an id again.
C23_GeneratedIdReturnedNotStored ==
  [][(last'.op = "server" /\ last'.evals # <<>> /\ ~Truthy(cookies))
      => /\ cookies' = cookies
         /\ last'.distinctId \in UUIDs
         /\ last'.evals[1].distinctId = last'.distinctId
         /\ Get(last'.ret, "posthogServerDistinctId") = Str(last'.distinctId)
         /\ Get(last'.ret, "posthogNewDistinctIdGenerated") = Str(last'.distinctId)]_vars

C23_Witness ==
  /\ n = 2 /\ ~Truthy(cookies)
  /\ ResolvedWithoutId(hist[1]) /\ ResolvedWithoutId(hist[2])
  /\ hist[1].distinctId # hist[2].distinctId
  /\ Get(last.ret, "posthogNewDistinctIdGenerated") = Str(last.distinctId)

\* the latest save asked for the flag sync and the sync did not succeed
FlagSyncFailed ==
  /\ IsSave
  /\ \E i \in 1..Len(last.calls) : last.calls[i].m = "SYNC_FLAG"
  /\ last.status \notin 200..299

\* C28: when the flag sync fails during a first-enable save, the returned
\* document still has enableABTesting true and the abVariant seeded by this
\* save (the base title copied into it): nothing is rolled back.
C28_FailedSyncKeepsSeededVariant ==
  (FirstEnable /\ FlagSyncFailed) =>
    /\ Get(last.ret, "enableABTesting") = JSTrue
    /\ Get(last.ret, "abVariant")
         = Get(seedOrPreserve(initVariant(last.data), last.orig, fields), "abVariant")
    /\ Get(Get(last.ret, "abVariant"), "title") = Get(last.orig, "title")

\* a first-enable save whose flag write failed after the lookup
C28_Witness ==
  /\ FirstEnable /\ FlagSyncFailed
  /\ last.env.write = "fail" /\ last.status = 500
  /\ Get(Get(last.ret, "abVariant"), "title") = Str("T1")

\* C29 (as claimed): on a save from enabled to enabled whose write carries no
\* abVariant, the hook returns the write without an abVariant: it neither adds
\* one nor sets it to the empty object, and the stored variant stays.
C29_Claim_PartialUpdateLeavesVariant ==
  (IsSave /\ OrigEnabled /\ DataEnabled /\ "abVariant" \notin Keys(last.data)) =>
    /\ "abVariant" \notin Keys(last.ret)
    /\ Get(doc, "abVariant") = Get(last.orig, "abVariant")

\* the key that holds an element's discriminator: the first of blockType,
\* type, blockName with a truthy value ("" when the element has none)
DiscriminatorKey(e) ==
  IF Truthy(Get(e, "blockType")) THEN "blockType"
  ELSE IF Truthy(Get(e, "type")) THEN "type"
  ELSE IF Truthy(Get(e, "blockName")) THEN "blockName"
  ELSE ""

\* an array all of whose elements are objects with a discriminator
IsTaggedList(x) ==
  /\ x.k = "arr" /\ Len(x.v) > 0
  /\ \A i \in 1..Len(x.v) : x.v[i].k = "obj" /\ DiscriminatorKey(x.v[i]) # ""

\* C30 (as claimed): the copy of a tagged-block list has, element by element,
\* blockType equal to the element's own discriminator and every property of
\* the element other than the system keys and the key that held the
\* discriminator, with its sanitized value.
C30_Claim_BlocksKeepOtherProperties ==
  (FirstEnable /\ "content" \in fields /\ IsTaggedList(LastSource("content"))) =>
    LET src == LastSource("content").v
        out == Get(Get(last.ret, "abVariant"), "content")
    IN /\ out.k = "arr" /\ Len(out.v) = Len(src)
       /\ \A i \in 1..Len(src) :
            /\ Get(out.v[i], "blockType") = src[i].v[DiscriminatorKey(src[i])]
            /\ \A key \in Keys(src[i]) \ (SystemKeys \cup {DiscriminatorKey(src[i])}) :
                 /\ key \in Keys(out.v[i])
                 /\ out.v[i].v[key] = sanitizeObject(src[i].v[key])

\* the names of a sequence of field definitions, in order
NamesOf(q) == [i \in 1..Len(q) |-> q[i].name]

\* the collection's named fields before the plugin ran, in schema order
NamedBefore == SelectSeq(NamesOf(last.config.fields), LAMBDA name : name # "")

\* the plugin ran with the collection configured and not disabled
RanEnabled ==
  /\ last.op = "plugin" /\ ~last.options.disabled
  /\ last.options.form # "absent" /\ last.options.enabled # "false"

\* the plugin ran with the collection absent from the options or disabled
RanDisabled ==
  /\ last.op = "plugin" /\ ~last.options.disabled
  /\ (last.options.form = "absent" \/ last.options.enabled = "false")

\* C21: for a configured and enabled collection the variant fields are, in
\* schema order, the named fields listed in `fields` when that list is
\* non-empty (whatever excludeFields says), else the named fields not listed in
\* excludeFields (default id, createdAt, updatedAt), and the collection gets
\* the hook; an absent or disabled collection is returned unchanged, without
\* a hook.
C21_VariantFieldSelection ==
  /\ RanEnabled =>
       /\ NamesOf(config.variantFields) =
            (IF last.options.fields.given /\ last.options.fields.names # <<>>
               THEN SelectSeq(NamedBefore,
                              LAMBDA name : name \in Range(last.options.fields.names))
             ELSE IF last.options.excludeFields.given
               THEN SelectSeq(NamedBefore,
                              LAMBDA name : name \notin Range(last.options.excludeFields.names))
             ELSE SelectSeq(NamedBefore,
                            LAMBDA name : name \notin {"id", "createdAt", "updatedAt"}))
       /\ fields = Range(NamesOf(config.variantFields))
       /\ config.beforeChange = last.config.beforeChange + 1
  /\ RanDisabled =>
       /\ config = last.config
       /\ heap = last.heap
       /\ fields = {}

\* both lists given: `fields` names title, excludeFields names it too, and
\* the variant has exactly title
C21_Witness ==
  /\ RanEnabled
  /\ last.options.fields.names = <<"title">>
  /\ last.options.excludeFields.names = <<"title">>
  /\ NamesOf(config.variantFields) = <<"title">>

\* C22 (as claimed): after the plugin has run every original field definition
\* is what it was before: the same required flag, and a hooks object and a
\* hooks.beforeValidate list with the same content.
C22_Claim_OriginalFieldsUntouched ==
  last.op = "plugin" =>
    /\ config.fields = last.config.fields
    /\ \A i \in 1..Len(last.config.fields) :
         LET a == last.config.fields[i].hooks
         IN a # 0 =>
              /\ heap[a] = last.heap[a]
              /\ last.heap[a].beforeValidate # 0 =>
                   heap[last.heap[a].beforeValidate] = last.heap[last.heap[a].beforeValidate]

\* a value in A/B format: an object with at least one key, every key being
\* default or a configured variant code
IsAbFormat(value) ==
  /\ value.k = "obj" /\ Keys(value) # {}
  /\ Keys(value) \subseteq {"default"} \cup Range(config.variants)

\* C24 (as claimed): a write of a value in A/B format stores it unchanged, and
\* a read of a stored value in A/B format for variant v gives value[v] when
\* that is defined and value.default otherwise (no variant: the default).
C24_Claim_AbFormatStoredAndServed ==
  /\ (last.op = "write" /\ IsAbFormat(last.data)) => doc = last.data
  /\ (last.op = "read" /\ IsAbFormat(doc)) =>
       last.ret = (IF last.arm # "" /\ Get(doc, last.arm) # Undef
                     THEN Get(doc, last.arm) ELSE Get(doc, "default"))

\* both requests are for the same key and both have been answered
BothDoneSameKey ==
  /\ last.op = "race"
  /\ \A p \in Requests : inflight[p].pc = "done"
  /\ inflight[1].key = inflight[2].key

\* C25 (as claimed): when two upserts of one key are handled at the same
\* time, however their steps interleave, at most one CREATE is issued for the
\* key and exactly one flag with the key exists when both are done.
C25_Claim_ConcurrentUpsertCreatesOnce ==
  BothDoneSameKey =>
    /\ inflight[1].creates + inflight[2].creates <= 1
    /\ Cardinality({i \in 1..Len(flags) : flags[i].key = inflight[1].key}) = 1

====
